---- MODULE Spec2Model ----
(***************************************************************************)
(* The BitBox Base RPC channel of bitbox-wallet-app.                       *)
(*                                                                         *)
(*   backend/bitboxbase/rpcclient  (src/unnamed/part_001): rpcConn,        *)
(*       RPCClient.Connect / parseMessage / Stop / ChannelHash and the     *)
(*       synchronous calls made through net/rpc;                           *)
(*   backend/bitboxbase            (src/unnamed/part_000): BitBoxBase,     *)
(*       ConnectRPCClient, Deregister, Close, fireEvent.                   *)
(*                                                                         *)
(* RPCClient.initializeNoise, RPCClient.runWebsocket and the pairing store *)
(* are defined in other files of the package; they are modelled from the   *)
(* specification (sections 4.1 - 4.3) and are marked so where they are     *)
(* defined.  The calls go through Go's net/rpc client; its                 *)
(* behaviour (Client.send, Client.input, Client.Close) is modelled at the  *)
(* places where rpcclient creates and uses the client.                     *)
(***************************************************************************)
EXTENDS Integers, Sequences, FiniteSets, TLC

(* ------------------------------ bounds --------------------------------- *)
\* calls issued on one rpc.Client (its seq counter is capped in the guards)
MaxSeq == 2
\* frames the appliance has sent and the read loop has not yet taken
MaxWire == 2
\* notification frames the appliance sends on one connection
MaxEvents == 2
\* length of the buffer the rpc codec's reader hands to rpcConn.Read
ReaderBuf == 4
\* handshakes that establish a session (the counter is capped in the guard)
MaxConn == 2
\* bytes of one RPC payload
MaxPayload == 3
\* bytes of the payloads taken from readChan while the reader is watched
MaxStream == 4
\* chunks of the largest firmware that is flashed
MaxChunks == 2
\* events the firmware and Reset fire on a bitbox02 Device
MaxFired == 2
\* events the observer has been sent when a user starts another ReindexBitcoin
\* or ResyncBitcoin
MaxNotified == 3

(* ----------------------------- constants ------------------------------- *)
\* the goroutine running BitBoxBase.ConnectRPCClient (it calls GetEnv)
Connector == "conn"
\* goroutines calling the RPCClient's synchronous methods
Callers == {"c1"}
AllCallers == Callers \cup {Connector}

\* static public keys a remote party can present, and the app's own key
Keys == {"K1", "K2"}
AppKey == "KA"
\* the static key a machine in the middle presents to both ends
MitmKey == "KM"
NoKey == "none"

\* the static key of the appliance a machine in the middle stands in front of
BaseKey == "K1"

\* rpcmessages opcodes (first byte of a decrypted frame)
OpRPCCall == "r"
OpUCanHasSampleInfo == "d"
OpUCanHasVerificationProgress == "v"

\* bitboxbasestatus events
EventSampleInfoChange == "sampleInfoChange"
EventVerificationProgressChange == "verificationProgressChange"
EventDisconnect == "disconnect"
EventStatusChange == "statusChange"

\* the bootloader's sizes
chunkSize == 8 * 512
maxFirmwareSize == 884736
firmwareChunks == maxFirmwareSize \div chunkSize
numRootKeys == 3
numSigningKeys == 3
magicLen == 4
versionLen == 4
signingPubkeysDataLen == versionLen + numSigningKeys * 64 + numRootKeys * 64
firmwareDataLen == versionLen + numSigningKeys * 64
sigDataLen == signingPubkeysDataLen + firmwareDataLen
\* seconds UpgradeFirmware counts down before the reboot
rebootSeconds == 5

\* bitboxbasestatus states the code names
StatusConnected == "connected"
StatusInitialized == "initialized"
Statuses == {StatusConnected, StatusInitialized}

VARIABLES
    pinned,                         \* pairing store: the pinned remote static key
    bitboxBaseNoiseStaticPubkey,    \* RPCClient field
    channelHash,                    \* RPCClient field
    channelHashAppVerified,         \* RPCClient field
    channelHashBitBoxBaseVerified,  \* RPCClient field
    baseChannelHash,                \* the fingerprint the responder computed
    client,                         \* RPCClient.client (*rpc.Client)
    closeChan,                      \* rpcConn.closeChan: "open" | "closed"
    loops,                          \* runWebsocket's goroutines: "none" | "running" | "closed" | "failed"
    callers,                        \* one record per calling goroutine
    peerInbox,                      \* requests the appliance received, not yet answered
    wsIn,                           \* frames sent by the appliance, not yet read
    nEvents,                        \* notification frames sent on this connection
    connPc,                         \* progress of ConnectRPCClient
    connErr,                        \* what the last ConnectRPCClient returned
    active,                         \* BitBoxBase.active
    notified,                       \* events delivered to the observer, in order
    unregistered,                   \* invocations of BitBoxBase.onUnregister
    panicked,                       \* a nil pointer dereference ended the process
    handshakes,                     \* sessions established so far, on any connection
    sendCipher,                     \* RPCClient field: [k, n], key and message counter
    receiveCipher,                  \* RPCClient field
    peerSend,                       \* the appliance's cipher state towards the app
    peerReceive,                    \* the appliance's cipher state from the app
    wsOut,                          \* frames written to the socket, in order
    status,                         \* BitBoxBase.status
    network,                        \* BitBoxBase.network
    electrsRPCPort,                 \* BitBoxBase.electrsRPCPort
    config,                         \* BitBoxBase.config: the electrum server it holds
    dereg,                          \* goroutines inside BitBoxBase.Deregister
    syncCalls,                      \* callers inside ReindexBitcoin / ResyncBitcoin
    electrumErr,                    \* what the last ConnectElectrum returned
    stream,                         \* bytes rpcConn.Read has returned to the rpc reader
    taken,                          \* bytes of the payloads taken from readChan
    deviceStatus,                   \* bootloader Device.status
    commands,                       \* commands each UpgradeFirmware has sent, in order
    reported,                       \* what each UpgradeFirmware called onStatusChanged with
    upg,                            \* goroutines inside Device.UpgradeFirmware
    onEvent,                        \* bitbox02 Device.onEvent
    fwStatus,                       \* firmware.Device's status
    delivered,                      \* the events fired, with the observer each went to
    handler,                        \* goroutines inside the callback NewDevice sets
    returned                        \* what the last call to the bitbox02 Device returned

vars == <<pinned, bitboxBaseNoiseStaticPubkey, channelHash, channelHashAppVerified,
          channelHashBitBoxBaseVerified, baseChannelHash, client, closeChan,
          loops, callers, peerInbox, wsIn, nEvents, connPc, connErr,
          active, notified, unregistered, panicked,
          handshakes, sendCipher, receiveCipher, peerSend, peerReceive,
          wsOut, status, network, electrsRPCPort, config,
          dereg, syncCalls, electrumErr, stream, taken,
          deviceStatus, commands, reported, upg,
          onEvent, fwStatus, delivered, handler, returned>>

pairingVars == <<pinned, bitboxBaseNoiseStaticPubkey, channelHash,
                 channelHashAppVerified, channelHashBitBoxBaseVerified,
                 baseChannelHash>>
wireVars == <<peerInbox, wsIn, nEvents, wsOut>>
\* goroutines that call BitBoxBase.Deregister: the interface offers it to
\* every user, and NewBitBoxBase hands it to the RPCClient as onUnregister
DeregTasks == {"d1", "d2"}
NotInDeregister == [pc |-> "out", err |-> "unset"]

\* rpcmessages.GetEnvResponse of an appliance, which is known by its static key
Env(key) ==
    IF key = "K2" THEN [Network |-> "testnet", ElectrsRPCPort |-> "51002"]
    ELSE [Network |-> "mainnet", ElectrsRPCPort |-> "50002"]
\* the response GetEnv() returned to ConnectRPCClient; behind a machine in the
\* middle it is the appliance that answers
GetEnvResponse ==
    Env(IF bitboxBaseNoiseStaticPubkey = MitmKey THEN BaseKey
        ELSE bitboxBaseNoiseStaticPubkey)

\* the electrum servers in the configuration, and whether the other coins
\* are switched off
NoServer == [btc |-> "", tbtc |-> "", btcOnly |-> FALSE]

envVars == <<network, electrsRPCPort, config>>
baseVars == <<active, notified, unregistered, status, envVars>>
\* goroutines inside methods of BitBoxBase that are modelled by statement
stepVars == <<dereg, syncCalls, electrumErr>>
\* rpcConn.Read seen byte by byte
readVars == <<stream, taken>>
\* the bootloader Device
bootVars == <<deviceStatus, commands, reported, upg>>
\* the bitbox02 Device
devVars == <<onEvent, fwStatus, delivered, handler, returned>>
\* the parts of the program outside BitBoxBase and its RPCClient
partVars == <<readVars, bootVars, devVars>>
\* what the steps of the RPC connection leave alone
extVars == <<stepVars, partVars>>
cipherVars == <<sendCipher, receiveCipher, peerSend, peerReceive>>
sessionVars == <<handshakes, cipherVars>>
\* BitBoxBase and its RPCClient
linkVars == <<sessionVars, pairingVars, client, closeChan, loops, callers, wireVars,
              connPc, connErr, baseVars, panicked>>

(* ------------------------------ rpc.Client ----------------------------- *)
NilClient == [state |-> "nil", seq |-> 0, pending |-> {}, input |-> "none"]
\* rpc.NewClient(rpcConnection): an open client whose input goroutine reads
NewClient == [state |-> "open", seq |-> 0, pending |-> {}, input |-> "reading"]

\* the reply slot of a call that has no reply
NoReply == [to |-> -1, success |-> FALSE]

\* seq -1: the call was never registered with the client
IdleCall == [pc |-> "idle", seq |-> -1, res |-> NoReply, err |-> "none", nful |-> 0]

\* a call that is registered with the client and not yet fulfilled
InFlight(c) == callers[c].pc \in {"writing", "waiting"}

ReqMutexFree_NoLock == TRUE
\* Client.reqMutex is held from send() until the codec's Write has returned
ReqMutexFree == \A c \in AllCallers : callers[c].pc # "writing"

(* --------------------- pairing store and handshake --------------------- *)
(* Modelled from the specification (4.1, 4.2): initializeNoise and the     *)
(* configuration helpers it uses are defined outside rpcclient.go.         *)

\* ChannelFingerprint: derived from both static keys of the handshake
Fingerprint(initiatorStatic, responderStatic) == <<initiatorStatic, responderStatic>>

\* Lookup(identity) -> (pubkey, found)
Lookup == [pubkey |-> pinned, found |-> pinned # NoKey]

\* the error initializeNoise returns: hs is the outcome of the key exchange,
\* k the static key the remote presented in it
HandshakeError_KnownKeyRejected(hs, k) ==
    IF hs # "ok" THEN "handshake"
    ELSE IF Lookup.found THEN "pinmismatch"
    ELSE "none"
HandshakeError(hs, k) ==
    IF hs # "ok" THEN "handshake"
    ELSE IF Lookup.found /\ Lookup.pubkey # k THEN "pinmismatch"
    ELSE "none"

PinnedAfterHandshake_Overwrite(hs, k) == IF hs = "ok" THEN k ELSE pinned
PinnedAfterHandshake_NoPin(hs, k) == pinned
\* trust on first use: an unknown identity's key is pinned, a pinned key stays
PinnedAfterHandshake(hs, k) ==
    IF hs = "ok" /\ ~Lookup.found THEN k ELSE pinned

InitiatorHash_OwnKeyFirst(local, remote, initiator) == Fingerprint(local, remote)
\* the fingerprint one end computes from its own and its peer's static key
InitiatorHash(local, remote, initiator) ==
    IF initiator THEN Fingerprint(local, remote) ELSE Fingerprint(remote, local)

(* ---------------------------- cipher session -------------------------- *)
(* Modelled from the specification (3, 4.1): the cipher states are created *)
(* by initializeNoise and used by runWebsocket.                            *)

\* a directional cipher state: its key and its message counter
NoCipher == [k |-> <<0, "none">>, n |-> 0]

SessionKey_Static(e, dir) == <<1, dir>>
\* the key of one direction derived in the e-th handshake: fresh ephemeral
\* keys go into every handshake, so no two handshakes derive the same key
SessionKey(e, dir) == <<e, dir>>

\* the cipher state of a direction right after the e-th handshake
NewCipher(e, dir) == [k |-> SessionKey(e, dir), n |-> 0]

Mac_NoBody(k, n, body) == <<k, n, <<>>>>
\* the authentication tag over the frame body under key k and counter n
Mac(k, n, body) == <<k, n, body>>

\* Encrypt(plaintext) -> ciphertextFrame, under the cipher state cs
Encrypt(cs, plaintext) == [body |-> plaintext, tag |-> Mac(cs.k, cs.n, plaintext)]

Decrypt_NoAuth(cs, frame) == [err |-> "none", plaintext |-> frame.body]
Decrypt_AnyCounter(cs, frame) ==
    IF Len(frame.tag) = 3 /\ frame.tag[1] = cs.k /\ frame.tag[3] = frame.body
    THEN [err |-> "none", plaintext |-> frame.body]
    ELSE [err |-> "decrypt", plaintext |-> <<>>]
\* Decrypt(ciphertextFrame) -> (plaintext, err), under the cipher state cs:
\* the tag has to be the one of this body under cs's key and counter
Decrypt(cs, frame) ==
    IF frame.tag = Mac(cs.k, cs.n, frame.body)
    THEN [err |-> "none", plaintext |-> frame.body]
    ELSE [err |-> "decrypt", plaintext |-> <<>>]

Advance_Stay(cs) == cs
\* the counter of a cipher state after a message was encrypted or decrypted
Advance(cs) == [cs EXCEPT !.n = @ + 1]

\* RPCClient.initializeNoise(ws): the fields it leaves behind; shown is the
\* static key presented to the app, by the appliance or by a machine in the
\* middle, which presents its own key to both ends
initializeNoise(hs, shown) ==
    LET err == HandshakeError(hs, shown)
        e == handshakes + 1
    IN  /\ handshakes' = IF err = "none" THEN e ELSE handshakes
        /\ sendCipher' = IF err = "none" THEN NewCipher(e, "out") ELSE NoCipher
        /\ receiveCipher' = IF err = "none" THEN NewCipher(e, "in") ELSE NoCipher
        /\ peerSend' = IF err = "none" THEN NewCipher(e, "in") ELSE NoCipher
        /\ peerReceive' = IF err = "none" THEN NewCipher(e, "out") ELSE NoCipher
        /\ pinned' = PinnedAfterHandshake(hs, shown)
        /\ bitboxBaseNoiseStaticPubkey' = IF hs = "ok" THEN shown ELSE NoKey
        /\ channelHash' = IF err = "none" THEN InitiatorHash(AppKey, shown, TRUE) ELSE <<>>
        /\ baseChannelHash' =
              IF err # "none" THEN <<>>
              ELSE IF shown = MitmKey THEN InitiatorHash(BaseKey, MitmKey, FALSE)
              ELSE InitiatorHash(shown, AppKey, FALSE)
        /\ channelHashAppVerified' = FALSE
        /\ channelHashBitBoxBaseVerified' = FALSE

\* RPCClient.ChannelHash() (string, bool)
ChannelHash == <<channelHash, channelHashBitBoxBaseVerified>>

\* the session whose fingerprint can be confirmed; the confirmations are
\* independent of the calls and are taken while nothing is on the wire
SessionUp ==
    /\ client.state = "open" /\ channelHash # <<>>
    /\ wsIn = <<>> /\ peerInbox = {}
    /\ \A c \in AllCallers : ~InFlight(c)

\* the local user confirms the fingerprint shown by the app
VerifyApp ==
    /\ ~panicked /\ SessionUp /\ ~channelHashAppVerified
    /\ channelHashAppVerified' = TRUE
    /\ UNCHANGED <<sessionVars, pinned, bitboxBaseNoiseStaticPubkey, channelHash,
                   channelHashBitBoxBaseVerified, baseChannelHash,
                   client, closeChan, loops, callers, wireVars, connPc, connErr,
                   baseVars, panicked>>
    /\ UNCHANGED extVars

\* the remote party reports that the fingerprint was confirmed on its side
VerifyBitBoxBase ==
    /\ ~panicked /\ SessionUp /\ ~channelHashBitBoxBaseVerified
    /\ channelHashBitBoxBaseVerified' = TRUE
    /\ UNCHANGED <<sessionVars, pinned, bitboxBaseNoiseStaticPubkey, channelHash,
                   channelHashAppVerified, baseChannelHash,
                   client, closeChan, loops, callers, wireVars, connPc, connErr,
                   baseVars, panicked>>
    /\ UNCHANGED extVars

\* Remove(identity): the user removes the pairing
PairingRemove ==
    /\ ~panicked /\ connPc = "idle" /\ pinned # NoKey
    /\ pinned' = NoKey
    /\ UNCHANGED <<sessionVars, bitboxBaseNoiseStaticPubkey, channelHash, channelHashAppVerified,
                   channelHashBitBoxBaseVerified, baseChannelHash,
                   client, closeChan, loops, callers, wireVars, connPc, connErr,
                   baseVars, panicked>>
    /\ UNCHANGED extVars

\* Pin(identity, pubkey) on the user's explicit re-pairing
PairingPin(k) ==
    /\ ~panicked /\ connPc = "idle" /\ pinned # NoKey /\ pinned # k
    /\ pinned' = k
    /\ UNCHANGED <<sessionVars, bitboxBaseNoiseStaticPubkey, channelHash, channelHashAppVerified,
                   channelHashBitBoxBaseVerified, baseChannelHash,
                   client, closeChan, loops, callers, wireVars, connPc, connErr,
                   baseVars, panicked>>
    /\ UNCHANGED extVars

(* ------------------------------ BitBoxBase ----------------------------- *)

fireEvent_Front(event) == <<event>> \o notified
\* BitBoxBase.fireEvent(event): the observer is notified
fireEvent(event) == Append(notified, event)

\* BitBoxBase.Deregister(): what it does to the base (an error and nothing
\* else when the base is not active)
Deregister ==
    IF ~active
    THEN UNCHANGED baseVars
    ELSE /\ notified' = fireEvent(EventDisconnect)
         /\ unregistered' = unregistered + 1
         /\ active' = FALSE
         /\ status' = status
         /\ UNCHANGED envVars

\* Deregister() invoked by a user of the base
UserDeregister ==
    /\ ~panicked /\ active
    /\ Deregister
    /\ UNCHANGED <<sessionVars, pairingVars, client, closeChan, loops, callers, wireVars,
                   connPc, connErr, panicked>>
    /\ UNCHANGED extVars

(* --------------------------- RPCClient.Connect ------------------------- *)

\* what the GET of the root path can give: a response with a status code,
\* or no response
Responses == {"200", "500", "neterr"}

Ping_NoCheck(response) == [success |-> TRUE, err |-> "none"]
\* RPCClient.Ping(): (success, err) for what the GET of the root path gave
Ping(response) ==
    IF response = "neterr" THEN [success |-> FALSE, err |-> "unreachable"]
    ELSE IF response # "200" THEN [success |-> FALSE, err |-> "none"]
    ELSE [success |-> TRUE, err |-> "none"]

\* Connect() up to the dial when the GET gave response: when Ping has no
\* success its err is returned, and ConnectRPCClient goes on to GetEnv when
\* that err is nil
ConnectProbe(response) ==
    LET ping == Ping(response)
    IN  /\ connErr' = ping.err
        /\ connPc' = IF ping.success THEN "pinged"
                     ELSE IF ping.err = "none" THEN "getenv"
                     ELSE "idle"

ConnectPing ==
    /\ ~panicked /\ connPc = "idle" /\ client.state = "nil"
    /\ \E response \in Responses : ConnectProbe(response)
    /\ UNCHANGED <<sessionVars, pairingVars, client, closeChan, loops, callers, wireVars,
                   baseVars, panicked>>
    /\ UNCHANGED extVars

ConnectDial ==
    /\ ~panicked /\ connPc = "pinged"
    /\ \E dialled \in BOOLEAN :
          IF dialled
          THEN connPc' = "dialed" /\ connErr' = "none"
          ELSE connPc' = "idle" /\ connErr' = "dial"
    /\ UNCHANGED <<sessionVars, pairingVars, client, closeChan, loops, callers, wireVars,
                   baseVars, panicked>>
    /\ UNCHANGED extVars

ConnectAfterNoise_IgnoreError(err) ==
    /\ client' = NewClient
    /\ loops' = "running"
    /\ connPc' = "getenv"
    /\ connErr' = "none"
\* Connect() after initializeNoise returned err: the error is returned, or the
\* rpc client is created on rpcConnection and runWebsocket starts the loops
ConnectAfterNoise(err) ==
    IF err # "none"
    THEN /\ connErr' = err
         /\ connPc' = "idle"
         /\ UNCHANGED <<client, loops>>
    ELSE /\ client' = NewClient
         /\ loops' = "running"
         /\ connPc' = "getenv"
         /\ connErr' = "none"

\* Connect(): the handshake and what follows it
ConnectHandshake ==
    /\ ~panicked /\ connPc = "dialed" /\ handshakes < MaxConn
    /\ \E hs \in {"ok", "fail"}, shown \in Keys \cup {MitmKey} :
          /\ initializeNoise(hs, shown)
          /\ ConnectAfterNoise(HandshakeError(hs, shown))
    /\ UNCHANGED <<closeChan, callers, wireVars, baseVars, panicked>>
    /\ UNCHANGED extVars

\* ConnectRPCClient() after GetEnv returned
ConnectFinish ==
    /\ ~panicked /\ connPc = "getenv" /\ callers[Connector].pc = "returned"
    /\ IF callers[Connector].err # "none"
       THEN /\ connPc' = "failed" /\ connErr' = "rpc" /\ active' = active
            /\ UNCHANGED <<network, electrsRPCPort>>
       ELSE /\ connPc' = "done" /\ connErr' = "none" /\ active' = TRUE
            /\ network' = GetEnvResponse.Network
            /\ electrsRPCPort' = GetEnvResponse.ElectrsRPCPort
    /\ UNCHANGED <<sessionVars, pairingVars, client, closeChan, loops, callers, wireVars,
                   notified, unregistered, status, config, panicked>>
    /\ UNCHANGED extVars

(* ------------------------- calls through net/rpc ----------------------- *)

\* Client.send(call): registers the call under the next seq and writes the
\* request through rpcConn.Write, or fails it when the client is shut down
Send(c) ==
    IF client.state = "closing" \/ client.input = "dead"
    THEN /\ callers' = [callers EXCEPT ![c] =
                           [pc |-> "returned", seq |-> -1, res |-> NoReply,
                            err |-> "shutdown", nful |-> 1]]
         /\ client' = client
    ELSE /\ client.seq < MaxSeq
         /\ callers' = [callers EXCEPT ![c] =
                           [pc |-> "writing", seq |-> client.seq, res |-> NoReply,
                            err |-> "none", nful |-> 0]]
         /\ client' = [client EXCEPT !.seq = @ + 1,
                                     !.pending = @ \cup {client.seq}]

\* a synchronous method of RPCClient (GetEnv, GetHostname, ...):
\* rpcClient.client.Call(...); on a nil client it dereferences nil
CallStart(c) ==
    /\ ~panicked
    /\ IF c = Connector
       THEN connPc = "getenv" /\ callers[c].pc = "idle"
       ELSE callers[c].pc \in {"idle", "returned"}
    /\ IF client.state = "nil"
       THEN panicked' = TRUE /\ UNCHANGED <<client, callers>>
       ELSE ReqMutexFree /\ Send(c) /\ panicked' = panicked
    /\ UNCHANGED <<sessionVars, pairingVars, closeChan, loops, wireVars, connPc, connErr,
                   baseVars>>
    /\ UNCHANGED extVars

\* rpcConn.Write(p): conn.writeChan <- p returns once the write loop has
\* taken p, the request of c's call
Write(c) ==
    /\ callers[c].pc = "writing"
    /\ loops = "running"
    /\ callers' = [callers EXCEPT ![c].pc = "waiting"]

\* the appliance receives a frame: a request it can decrypt is kept until it
\* is answered
PeerReceive(frame) ==
    LET opened == Decrypt(peerReceive, frame)
    IN  IF opened.err = "none"
        THEN /\ peerInbox' = peerInbox \cup {opened.plaintext[1]}
             /\ peerReceive' = Advance(peerReceive)
        ELSE UNCHANGED <<peerInbox, peerReceive>>

SocketSend_Front(socket, frame) == <<frame>> \o socket
\* the socket after frame was written to it
SocketSend(socket, frame) == Append(socket, frame)

\* the write loop takes a message from writeChan, encrypts it and sends it
\* to the appliance as one frame
WriteLoopStep ==
    /\ ~panicked
    /\ \E c \in AllCallers :
          LET frame == Encrypt(sendCipher, <<callers[c].seq>>)
          IN  /\ Write(c)
              /\ wsOut' = SocketSend(wsOut, frame)
              /\ PeerReceive(frame)
    /\ sendCipher' = Advance(sendCipher)
    /\ UNCHANGED <<pairingVars, client, closeChan, loops, wsIn, nEvents,
                   connPc, connErr, baseVars, panicked,
                   handshakes, receiveCipher, peerSend>>
    /\ UNCHANGED extVars

(* --------------------------- the appliance ----------------------------- *)

\* the reply the appliance produces for the request with sequence number s
ReplyTo(s) == [to |-> s, success |-> TRUE]
\* the reply of a method that failed on the appliance: Success is false
RefusalTo(s) == [to |-> s, success |-> FALSE]

\* the appliance answers a request it received
PeerRespond ==
    /\ ~panicked /\ loops = "running" /\ Len(wsIn) < MaxWire
    /\ \E s \in peerInbox :
          /\ wsIn' = Append(wsIn, Encrypt(peerSend, <<OpRPCCall, s, ReplyTo(s)>>))
          /\ peerInbox' = peerInbox \ {s}
    /\ peerSend' = Advance(peerSend)
    /\ UNCHANGED <<pairingVars, client, closeChan, loops, callers, nEvents,
                   connPc, connErr, baseVars, panicked,
                   handshakes, sendCipher, receiveCipher, peerReceive, wsOut>>
    /\ UNCHANGED extVars

\* the notifications of the appliance: sample info and verification
\* progress take turns
Notification(i) ==
    IF i % 2 = 0 THEN <<OpUCanHasSampleInfo>> ELSE <<OpUCanHasVerificationProgress>>

\* the frames parseMessage has no case for: one with an unknown opcode and
\* an empty one take turns
Malformed(i) ==
    IF i % 2 = 0 THEN <<"x">> ELSE <<>>

\* frames the appliance sends unasked: its next notification, an RPC frame
\* whose payload is no response, a frame parseMessage has no case for
Unsolicited ==
    {Notification(nEvents), <<OpRPCCall, "junk">>, Malformed(nEvents)}

PeerNotify ==
    /\ ~panicked /\ loops = "running" /\ Len(wsIn) < MaxWire
    /\ nEvents < MaxEvents
    /\ \E msg \in Unsolicited : wsIn' = Append(wsIn, Encrypt(peerSend, msg))
    /\ peerSend' = Advance(peerSend)
    /\ nEvents' = nEvents + 1
    /\ UNCHANGED <<pairingVars, client, closeChan, loops, callers, peerInbox,
                   connPc, connErr, baseVars, panicked,
                   handshakes, sendCipher, receiveCipher, peerReceive, wsOut>>
    /\ UNCHANGED extVars

(* ------------------------------ read path ------------------------------ *)
Min(a, b) == IF a < b THEN a ELSE b

parseMessage_UnknownIsEvent(message) ==
    IF Len(message) = 0 THEN [kind |-> "drop"]
    ELSE IF message[1] = OpUCanHasVerificationProgress
         THEN [kind |-> "event", event |-> EventVerificationProgressChange]
    ELSE IF message[1] = OpRPCCall
         THEN [kind |-> "rpc", payload |-> Tail(message)]
    ELSE [kind |-> "event", event |-> EventSampleInfoChange]
\* RPCClient.parseMessage(message): what becomes of a decrypted frame
parseMessage(message) ==
    IF Len(message) = 0 THEN [kind |-> "drop"]
    ELSE IF message[1] = OpUCanHasSampleInfo
         THEN [kind |-> "event", event |-> EventSampleInfoChange]
    ELSE IF message[1] = OpUCanHasVerificationProgress
         THEN [kind |-> "event", event |-> EventVerificationProgressChange]
    ELSE IF message[1] = OpRPCCall
         THEN [kind |-> "rpc", payload |-> Tail(message)]
    ELSE [kind |-> "drop"]

\* rpcConn.Read(p): copy(p, <-conn.readChan), the error is always nil
Read(plen, message) == SubSeq(message, 1, Min(plen, Len(message)))

\* a payload the rpc codec decodes as a response: <<seq, reply>>
IsResponse(payload) ==
    /\ Len(payload) = 2
    /\ payload[1] \in 0..(MaxSeq - 1)
    /\ payload[2] \in {ReplyTo(s) : s \in 0..(MaxSeq - 1)}
                      \cup {RefusalTo(s) : s \in 0..(MaxSeq - 1)}

MatchCall_Oldest(s) ==
    {c \in AllCallers : /\ callers[c].seq \in client.pending
                        /\ \A t \in client.pending : callers[c].seq <= t}
\* Client.input: call := client.pending[seq]
MatchCall(s) ==
    {c \in AllCallers : callers[c].seq \in client.pending /\ callers[c].seq = s}

PendingAfterResponse_Keep(s) == client.pending
\* Client.input: delete(client.pending, seq)
PendingAfterResponse(s) == client.pending \ {s}

\* Client.input, one round: the response is handed to the call registered
\* under its seq (or discarded when there is none); a payload that does not
\* decode ends the loop
ClientInput(payload) ==
    IF IsResponse(payload)
    THEN /\ callers' = [c \in AllCallers |->
                           IF c \in MatchCall(payload[1])
                           THEN [callers[c] EXCEPT !.pc = "returned",
                                                   !.res = payload[2],
                                                   !.nful = @ + 1]
                           ELSE callers[c]]
         /\ client' = [client EXCEPT !.pending = PendingAfterResponse(payload[1])]
    ELSE /\ client' = [client EXCEPT !.input = "terminating"]
         /\ callers' = callers

\* runWebsocket's loops end: the socket is closed and onUnregister is called
\* (modelled from the specification, 4.3 and 7); how is "closed", "failed"
\* or "undecryptable"
LoopsExit(how) ==
    /\ loops' = how
    /\ Deregister

\* the socket is closed: what was in flight on it is gone, and the cipher
\* session of the connection is destroyed
SocketClosed ==
    /\ peerInbox' = {}
    /\ wsIn' = <<>>
    /\ wsOut' = <<>>
    /\ nEvents' = 0
    /\ sendCipher' = NoCipher
    /\ receiveCipher' = NoCipher
    /\ peerSend' = NoCipher
    /\ peerReceive' = NoCipher

InputReady_NeedsReqMutex == client.input = "reading" /\ ReqMutexFree
\* the rpc client's input goroutine is in rpcConn.Read, receiving on readChan
InputReady == client.input = "reading"

\* the read loop has taken frame from the socket, rest stays in the socket:
\* a frame that does not decrypt ends the connection, any other is parsed;
\* an RPC payload is handed over on readChan, which needs the rpc reader to
\* receive
ReadFrame(frame, rest) ==
    /\ LET opened == Decrypt(receiveCipher, frame)
           parsed == parseMessage(opened.plaintext)
       IN  IF opened.err # "none"
           THEN /\ LoopsExit("undecryptable")
                /\ SocketClosed
                /\ UNCHANGED <<client, callers>>
           ELSE /\ parsed.kind = "rpc" => InputReady
                /\ receiveCipher' = Advance(receiveCipher)
                /\ IF parsed.kind = "rpc"
                   THEN /\ ClientInput(Read(ReaderBuf, parsed.payload))
                        /\ notified' = notified
                   ELSE /\ notified' = IF parsed.kind = "event"
                                       THEN fireEvent(parsed.event)
                                       ELSE notified
                        /\ UNCHANGED <<client, callers>>
                /\ wsIn' = rest
                /\ UNCHANGED <<loops, active, unregistered, status, envVars, peerInbox,
                               nEvents, sendCipher, peerSend, peerReceive, wsOut>>
    /\ UNCHANGED <<pairingVars, closeChan, connPc, connErr, panicked, handshakes>>

\* the read loop reads the next frame the appliance sent
ReadLoopStep ==
    /\ ~panicked /\ loops = "running" /\ wsIn # <<>>
    /\ ReadFrame(Head(wsIn), Tail(wsIn))
    /\ UNCHANGED extVars

\* frames the network can deliver that the appliance did not send so: a
\* notification frame with a bit of its body or of its tag altered, cut
\* short, delivered again or ahead of its turn, or taken from an earlier
\* connection
Forgeries ==
    LET p == <<OpUCanHasSampleInfo>>
        q == <<OpUCanHasVerificationProgress>>
        genuine == Encrypt(peerSend, p)
    IN  {[genuine EXCEPT !.body = q],
         [genuine EXCEPT !.tag = Mac(peerSend.k, peerSend.n, q)],
         [genuine EXCEPT !.tag = SubSeq(@, 1, 2)]}
        \cup {Encrypt([peerSend EXCEPT !.n = j], p) :
                  j \in {peerSend.n - 1, peerSend.n + 1} \ {-1}}
        \cup {Encrypt([peerSend EXCEPT !.k = SessionKey(e, "in")], p) :
                  e \in 1..(handshakes - 1)}

\* the read loop reads a frame the network forged; it is taken at the
\* moment it is read, when the frames sent before it have been read
NetInject ==
    /\ ~panicked /\ loops = "running" /\ wsIn = <<>>
    /\ \E frame \in Forgeries : ReadFrame(frame, <<>>)
    /\ UNCHANGED extVars

\* Client.input after a read error: with reqMutex held, every pending call
\* is ended with the error
InputTerminate ==
    /\ ~panicked /\ client.input = "terminating" /\ ReqMutexFree
    /\ client' = [client EXCEPT !.input = "dead"]
    /\ callers' = [c \in AllCallers |->
                      IF callers[c].seq \in client.pending
                      THEN [callers[c] EXCEPT !.pc = "returned",
                                              !.err = "decode",
                                              !.nful = @ + 1]
                      ELSE callers[c]]
    /\ UNCHANGED <<sessionVars, pairingVars, closeChan, loops, wireVars, connPc, connErr,
                   baseVars, panicked>>
    /\ UNCHANGED extVars

(* ------------------------------- closing ------------------------------- *)

\* rpcConn.Close(): close(closeChan) unless it is nil, then nil
Close(ch) == IF ch # "nil" THEN "nil" ELSE ch

\* rpc.Client.Close(): ErrShutdown when the client is closing already, else
\* the client is marked closing and the codec's connection is closed
ClientClose(cl) ==
    IF cl.state = "closing"
    THEN [err |-> "shutdown", client |-> cl]
    ELSE [err |-> "none", client |-> [cl EXCEPT !.state = "closing"]]

\* RPCClient.Stop() (and BitBoxBase.Close()): rpcClient.client.Close(); an
\* error it returns is logged
Stop ==
    /\ ~panicked
    /\ IF client.state = "nil"
       THEN panicked' = TRUE /\ UNCHANGED <<client, closeChan>>
       ELSE /\ panicked' = panicked
            /\ client' = ClientClose(client).client
            /\ closeChan' = IF ClientClose(client).err = "none"
                            THEN Close(closeChan) ELSE closeChan
    /\ UNCHANGED <<sessionVars, pairingVars, loops, callers, wireVars,
                   connPc, connErr, baseVars>>
    /\ UNCHANGED extVars

\* the loops see that closeChan was closed
LoopsExitOnClose ==
    /\ ~panicked /\ loops = "running" /\ closeChan = "nil"
    /\ LoopsExit("closed")
    /\ SocketClosed
    /\ UNCHANGED <<handshakes, pairingVars, client, closeChan, callers, connPc,
                   connErr, panicked>>
    /\ UNCHANGED extVars

\* a read from or a write to the socket fails
SocketError ==
    /\ ~panicked /\ loops = "running"
    /\ LoopsExit("failed")
    /\ SocketClosed
    /\ UNCHANGED <<handshakes, pairingVars, client, closeChan, callers, connPc,
                   connErr, panicked>>
    /\ UNCHANGED extVars

(* ------------------------------ the system ----------------------------- *)

\* NewBitBoxBase / NewRPCClient: a new base object; the pairing store persists
Fresh ==
    /\ bitboxBaseNoiseStaticPubkey = NoKey
    /\ channelHash = <<>>
    /\ channelHashAppVerified = FALSE
    /\ channelHashBitBoxBaseVerified = FALSE
    /\ baseChannelHash = <<>>
    /\ client = NilClient
    /\ closeChan = "open"
    /\ loops = "none"
    /\ callers = [c \in AllCallers |-> IdleCall]
    /\ peerInbox = {}
    /\ wsIn = <<>>
    /\ nEvents = 0
    /\ connPc = "idle"
    /\ connErr = "none"
    /\ active = FALSE
    /\ notified = <<>>
    /\ unregistered = 0
    /\ panicked = FALSE
    /\ sendCipher = NoCipher
    /\ receiveCipher = NoCipher
    /\ peerSend = NoCipher
    /\ peerReceive = NoCipher
    /\ wsOut = <<>>
    /\ status = StatusConnected
    /\ network = ""
    /\ electrsRPCPort = ""

\* a float64 progress, kept as the quotient the code computes it from
Quotient(n, d) == [num |-> n, den |-> d]
\* goroutines that call UpgradeFirmware
UpgTasks == {"u1", "u2"}
\* a goroutine that is not inside UpgradeFirmware, and the firmware it passed
NoFirmware == [len |-> 0, magicOk |-> FALSE]
NotUpgrading ==
    [pc |-> "out", err |-> "unset", firmware |-> NoFirmware, left |-> 0,
     totalChunks |-> 0, chunkNum |-> 0, progress |-> <<>>, seconds |-> 0]
\* NewDevice of the bootloader: `status: &Status{}`
BootInit ==
    /\ deviceStatus = [Upgrading |-> FALSE, Progress |-> Quotient(0, 1),
                       UpgradeSuccessful |-> FALSE, ErrMsg |-> "", RebootSeconds |-> 0]
    /\ commands = [t \in UpgTasks |-> <<>>]
    /\ reported = [t \in UpgTasks |-> <<>>]
    /\ upg = [t \in UpgTasks |-> NotUpgrading]

\* goroutines in which firmware.Device calls the callback NewDevice sets
FirmwareTasks == {"f1"}
\* firmware.Device's states, as far as the bitbox02 Device tells them apart
FirmwareStatusInitialized == "initialized"
FirmwareStatuses == {"connected", "uninitialized", FirmwareStatusInitialized}
\* NewDevice of the bitbox02: no observer, no call made
DevInit ==
    /\ onEvent = "nil"
    /\ fwStatus = "connected"
    /\ delivered = <<>>
    /\ handler = [f \in FirmwareTasks |-> "out"]
    /\ returned = [op |-> "none", value |-> "unset"]
ExtInit ==
    /\ config = NoServer
    /\ dereg = [t \in DeregTasks |-> NotInDeregister]
    /\ syncCalls = [c \in Callers |-> "none"]
    /\ electrumErr = "none"
    /\ stream = <<>> /\ taken = <<>>
    /\ BootInit
    /\ DevInit

Init == pinned = NoKey /\ handshakes = 0 /\ Fresh /\ ExtInit

\* the base is registered anew (also after the process was restarted), once
\* no goroutine is left inside a call on the old one
Register ==
    /\ connPc # "idle" \/ panicked
    /\ \A c \in AllCallers : ~InFlight(c)
    /\ pinned' = pinned
    /\ bitboxBaseNoiseStaticPubkey' = NoKey
    /\ channelHash' = <<>>
    /\ channelHashAppVerified' = FALSE
    /\ channelHashBitBoxBaseVerified' = FALSE
    /\ baseChannelHash' = <<>>
    /\ client' = NilClient
    /\ closeChan' = "open"
    /\ loops' = "none"
    /\ callers' = [c \in AllCallers |-> IdleCall]
    /\ peerInbox' = {}
    /\ wsIn' = <<>>
    /\ nEvents' = 0
    /\ connPc' = "idle"
    /\ connErr' = "none"
    /\ active' = FALSE
    /\ notified' = <<>>
    /\ unregistered' = 0
    /\ panicked' = FALSE
    /\ handshakes' = handshakes
    /\ sendCipher' = NoCipher
    /\ receiveCipher' = NoCipher
    /\ peerSend' = NoCipher
    /\ peerReceive' = NoCipher
    /\ wsOut' = <<>>
    /\ status' = StatusConnected
    /\ network' = ""
    /\ electrsRPCPort' = ""
    /\ config' = config
    /\ UNCHANGED extVars

Next ==
    \/ ConnectPing
    \/ ConnectDial
    \/ ConnectHandshake
    \/ ConnectFinish
    \/ \E c \in AllCallers : CallStart(c)
    \/ WriteLoopStep
    \/ PeerRespond
    \/ PeerNotify
    \/ NetInject
    \/ ReadLoopStep
    \/ InputTerminate
    \/ VerifyApp
    \/ VerifyBitBoxBase
    \/ PairingRemove
    \/ \E k \in Keys : PairingPin(k)
    \/ UserDeregister
    \/ Stop
    \/ LoopsExitOnClose
    \/ SocketError
    \/ Register

Spec == Init /\ [][Next]_vars

\* the goroutines of the program run when they can; the appliance, the user
\* and the network are under no obligation
Fairness ==
    /\ WF_vars(WriteLoopStep)
    /\ WF_vars(ReadLoopStep)
    /\ WF_vars(InputTerminate)
    /\ WF_vars(LoopsExitOnClose)
    /\ WF_vars(ConnectFinish)

FairSpec == Spec /\ Fairness

(* ------------- ConnectRPCClient on a base that was closed -------------- *)

\* ConnectRPCClient() called once more on the same base, after Close() and
\* after the loops of the closed connection have ended: Connect() starts
\* with the probe whatever the RPCClient has been through
ConnectAgain ==
    /\ ~panicked /\ connPc \in {"done", "failed"}
    /\ client.state = "closing" /\ loops \notin {"none", "running"}
    /\ \A c \in AllCallers : ~InFlight(c)
    /\ \E response \in Responses : ConnectProbe(response)
    /\ callers' = [callers EXCEPT ![Connector] = IdleCall]
    /\ UNCHANGED <<sessionVars, pairingVars, client, closeChan, loops, wireVars,
                   baseVars, panicked>>
    /\ UNCHANGED extVars

\* the steps of a base that is connected, closed and connected again, with an
\* appliance that answers and a user who makes no other call
ReuseNext ==
    \/ ConnectPing
    \/ ConnectDial
    \/ ConnectHandshake
    \/ CallStart(Connector)
    \/ WriteLoopStep
    \/ PeerRespond
    \/ ReadLoopStep
    \/ ConnectFinish
    \/ Stop
    \/ LoopsExitOnClose
    \/ ConnectAgain

\* the program with a user who connects a closed base again
ReuseSpec == Init /\ [][ReuseNext]_vars

\* ConnectRPCClient() called once more on a base that is active: Connect()
\* starts with the probe, and nothing in ConnectRPCClient or Connect looks at
\* base.active or at rpcClient.client
ConnectWhileActive ==
    /\ ~panicked /\ connPc = "done" /\ active
    /\ \A c \in AllCallers : ~InFlight(c)
    /\ \E response \in Responses : ConnectProbe(response)
    /\ callers' = [callers EXCEPT ![Connector] = IdleCall]
    /\ UNCHANGED <<sessionVars, pairingVars, client, closeChan, loops, wireVars,
                   baseVars, panicked>>
    /\ UNCHANGED extVars

RetryNext == ReuseNext \/ ConnectWhileActive

\* the program with a user who calls ConnectRPCClient whenever no call is
\* under way
RetrySpec == Init /\ [][RetryNext]_vars

(* ------------------- calls through BitBoxBase's methods ---------------- *)

\* the error of a method of BitBoxBase called on a base that is not active
NonActive ==
    [pc |-> "returned", seq |-> -1, res |-> NoReply, err |-> "nonactive", nful |-> 0]

FacadeCall_Unchecked(c) ==
    /\ ~panicked /\ callers[c].pc \in {"idle", "returned"}
    /\ ReqMutexFree /\ Send(c)
    /\ UNCHANGED <<sessionVars, pairingVars, closeChan, loops, wireVars, connPc,
                   connErr, baseVars, panicked>>
    /\ UNCHANGED extVars
\* BitBoxBase.GetHostname() and the like, called by c: an error at once when
\* the base is not active, else the method of RPCClient
FacadeCall(c) ==
    /\ ~panicked /\ callers[c].pc \in {"idle", "returned"}
    /\ IF ~active
       THEN callers' = [callers EXCEPT ![c] = NonActive] /\ client' = client
       ELSE ReqMutexFree /\ Send(c)
    /\ UNCHANGED <<sessionVars, pairingVars, closeChan, loops, wireVars, connPc,
                   connErr, baseVars, panicked>>
    /\ UNCHANGED extVars

changeStatus_Silent(st) ==
    /\ status' = st
    /\ notified' = notified
\* BitBoxBase.changeStatus(status): the status is replaced and the observer
\* is told that it changed
changeStatus(st) ==
    /\ status' = st
    /\ notified' = fireEvent(EventStatusChange)

\* the appliance reports a status and RPCClient hands it to onChangeStatus,
\* which is BitBoxBase.changeStatus (the caller of onChangeStatus is not in
\* rpcclient.go; modelled from the specification, 4.5)
StatusNotify ==
    /\ ~panicked /\ loops = "running" /\ nEvents < MaxEvents
    /\ \E st \in Statuses : changeStatus(st)
    /\ nEvents' = nEvents + 1
    /\ UNCHANGED <<sessionVars, pairingVars, client, closeChan, loops, callers,
                   peerInbox, wsIn, wsOut, connPc, connErr, active, unregistered, envVars,
                   panicked>>
    /\ UNCHANGED extVars

\* the appliance answers a request it received with a reply whose Success
\* is false: the method failed there
PeerRefuse ==
    /\ ~panicked /\ loops = "running" /\ Len(wsIn) < MaxWire
    /\ \E s \in peerInbox :
          /\ wsIn' = Append(wsIn, Encrypt(peerSend, <<OpRPCCall, s, RefusalTo(s)>>))
          /\ peerInbox' = peerInbox \ {s}
    /\ peerSend' = Advance(peerSend)
    /\ UNCHANGED <<pairingVars, client, closeChan, loops, callers, nEvents,
                   connPc, connErr, baseVars, panicked,
                   handshakes, sendCipher, receiveCipher, peerReceive, wsOut>>
    /\ UNCHANGED extVars

FacadeResult_ErrOnly(call) == call.err
\* what BitBoxBase.SetHostname() and the like return for a call that has
\* returned: the error of the rpc call, else the reply itself as the error
\* when its Success is false, else nil
FacadeResult(call) ==
    IF call.err # "none" THEN call.err
    ELSE IF ~call.res.success THEN "refused"
    ELSE "none"

\* the steps of a base whose user calls BitBoxBase's and RPCClient's methods,
\* with an appliance that answers, refuses and reports its status
FacadeNext ==
    \/ ConnectPing
    \/ ConnectDial
    \/ ConnectHandshake
    \/ \E c \in AllCallers : CallStart(c)
    \/ WriteLoopStep
    \/ PeerRespond
    \/ PeerRefuse
    \/ ReadLoopStep
    \/ ConnectFinish
    \/ \E c \in Callers : FacadeCall(c)
    \/ StatusNotify
    \/ UserDeregister
    \/ Stop
    \/ LoopsExitOnClose

\* the program with a user who calls the methods and an appliance that may
\* refuse
FacadeSpec == Init /\ [][FacadeNext]_vars

(* --------------- BitBoxBase's methods, statement by statement ----------- *)

\* BitBoxBase.Deregister() of goroutine t, `if !base.active { return err }`
DeregisterEnter_Unchecked(t) ==
    /\ ~panicked /\ dereg[t].pc = "out"
    /\ dereg' = [dereg EXCEPT ![t] = [pc |-> "fire", err |-> "none"]]
    /\ UNCHANGED <<sessionVars, pairingVars, client, closeChan, loops, callers, wireVars,
                   connPc, connErr, baseVars, panicked, syncCalls, electrumErr, partVars>>
DeregisterEnter(t) ==
    /\ ~panicked /\ dereg[t].pc = "out"
    /\ dereg' = [dereg EXCEPT ![t] = IF ~active
                                     THEN [pc |-> "out", err |-> "nonactive"]
                                     ELSE [pc |-> "fire", err |-> "none"]]
    /\ UNCHANGED <<sessionVars, pairingVars, client, closeChan, loops, callers, wireVars,
                   connPc, connErr, baseVars, panicked, syncCalls, electrumErr, partVars>>

\* `base.fireEvent(bitboxbasestatus.EventDisconnect)`
DeregisterFire(t) ==
    /\ ~panicked /\ dereg[t].pc = "fire"
    /\ notified' = fireEvent(EventDisconnect)
    /\ dereg' = [dereg EXCEPT ![t].pc = "unregister"]
    /\ UNCHANGED <<sessionVars, pairingVars, client, closeChan, loops, callers, wireVars,
                   connPc, connErr, active, unregistered, status, envVars, panicked,
                   syncCalls, electrumErr, partVars>>

\* `base.onUnregister(base.bitboxBaseID)`
DeregisterUnregister(t) ==
    /\ ~panicked /\ dereg[t].pc = "unregister"
    /\ unregistered' = unregistered + 1
    /\ dereg' = [dereg EXCEPT ![t].pc = "clear"]
    /\ UNCHANGED <<sessionVars, pairingVars, client, closeChan, loops, callers, wireVars,
                   connPc, connErr, active, notified, status, envVars, panicked,
                   syncCalls, electrumErr, partVars>>

\* `base.active = false; return nil`
DeregisterClear(t) ==
    /\ ~panicked /\ dereg[t].pc = "clear"
    /\ active' = FALSE
    /\ dereg' = [dereg EXCEPT ![t] = [pc |-> "out", err |-> "none"]]
    /\ UNCHANGED <<sessionVars, pairingVars, client, closeChan, loops, callers, wireVars,
                   connPc, connErr, notified, unregistered, status, envVars, panicked,
                   syncCalls, electrumErr, partVars>>

SyncOps == {"ReindexBitcoin", "ResyncBitcoin"}

\* BitBoxBase.ReindexBitcoin() / ResyncBitcoin() of caller c, up to the call
\* on the rpc client
SyncCall(c, op) ==
    /\ ~panicked /\ callers[c].pc \in {"idle", "returned"} /\ syncCalls[c] = "none"
    /\ Len(notified) < MaxNotified
    /\ IF ~active
       THEN /\ callers' = [callers EXCEPT ![c] = NonActive]
            /\ UNCHANGED <<client, syncCalls>>
       ELSE /\ ReqMutexFree /\ Send(c)
            /\ syncCalls' = [syncCalls EXCEPT ![c] = op]
    /\ UNCHANGED <<sessionVars, pairingVars, closeChan, loops, wireVars, connPc,
                   connErr, baseVars, panicked, dereg, electrumErr, partVars>>

\* ReindexBitcoin() / ResyncBitcoin() after the call on the rpc client has
\* returned: changeStatus(StatusInitialized), then the error or the refusal
\* is returned, which is FacadeResult of the call
SyncReturn(c) ==
    /\ ~panicked /\ syncCalls[c] # "none" /\ callers[c].pc = "returned"
    /\ changeStatus(StatusInitialized)
    /\ syncCalls' = [syncCalls EXCEPT ![c] = "none"]
    /\ UNCHANGED <<sessionVars, pairingVars, client, closeChan, loops, callers, wireVars,
                   connPc, connErr, active, unregistered, envVars, panicked, dereg,
                   electrumErr, partVars>>

\* what DownloadCert, CheckElectrumServer and SetAppConfig can give
ElectrumOutcomes == {"ok", "cert", "check", "save"}

\* the configuration after the setters ConnectElectrum calls
ConfigFor(address) ==
    IF network = "testnet"
    THEN [config EXCEPT !.tbtc = address, !.btcOnly = TRUE]
    ELSE [config EXCEPT !.btc = address, !.btcOnly = TRUE]

\* BitBoxBase.ConnectElectrum()
ConnectElectrum ==
    /\ ~panicked
    /\ \E outcome \in ElectrumOutcomes :
          IF ~active
          THEN electrumErr' = "nonactive" /\ config' = config
          ELSE /\ electrumErr' = IF outcome = "ok" THEN "none" ELSE outcome
               /\ config' = IF outcome \in {"ok", "save"}
                            THEN ConfigFor(<<"address", electrsRPCPort>>)
                            ELSE config
    /\ UNCHANGED <<sessionVars, pairingVars, client, closeChan, loops, callers, wireVars,
                   connPc, connErr, active, notified, unregistered, status, network,
                   electrsRPCPort, panicked, dereg, syncCalls, partVars>>

BaseNext ==
    \/ ConnectPing
    \/ ConnectDial
    \/ ConnectHandshake
    \/ CallStart(Connector)
    \/ WriteLoopStep
    \/ PeerRespond
    \/ PeerRefuse
    \/ ReadLoopStep
    \/ ConnectFinish
    \/ \E c \in Callers : syncCalls[c] = "none" /\ FacadeCall(c)
    \/ \E c \in Callers, op \in SyncOps : SyncCall(c, op)
    \/ \E c \in Callers : SyncReturn(c)
    \/ ConnectElectrum
    \/ \E t \in DeregTasks : DeregisterEnter(t)
    \/ \E t \in DeregTasks : DeregisterFire(t)
    \/ \E t \in DeregTasks : DeregisterUnregister(t)
    \/ \E t \in DeregTasks : DeregisterClear(t)
    \/ Stop

\* the base with users who call its methods from several goroutines
BaseSpec == Init /\ [][BaseNext]_vars

(* ------------------- rpcConn.Read, seen byte by byte -------------------- *)

Bytes == {"a", "b"}
RECURSIVE SeqsOf(_, _)
\* the sequences over S of length n
SeqsOf(S, n) ==
    IF n = 0 THEN {<<>>}
    ELSE {Append(q, x) : q \in SeqsOf(S, n - 1), x \in S}
\* the decrypted frames that carry an RPC payload
RPCFrames == UNION {{<<OpRPCCall>> \o q : q \in SeqsOf(Bytes, n)} : n \in 1..MaxPayload}

\* parseMessage hands the payload of an RPC frame over on readChan, and the
\* rpc reader, in rpcConn.Read(p) with len(p) = plen, receives it
ReadPayload ==
    /\ \E frame \in RPCFrames, plen \in 1..ReaderBuf :
          LET parsed == parseMessage(frame)
          IN  /\ parsed.kind = "rpc"
              /\ Len(taken) + Len(parsed.payload) <= MaxStream
              /\ taken' = taken \o parsed.payload
              /\ stream' = stream \o Read(plen, parsed.payload)
    /\ UNCHANGED <<linkVars, stepVars, bootVars, devVars>>

ReadNext == ReadPayload

\* the rpc reader and the read loop on one rpcConn
ReadSpec == Init /\ [][ReadNext]_vars

(* ---------------------- the bootloader's Device ------------------------ *)

\* lengths of the part of a firmware file behind the magic and the signatures
PayloadLens ==
    {1} \cup {k * chunkSize : k \in 1..MaxChunks}
        \cup {k * chunkSize + 1 : k \in 1..(MaxChunks - 1)}
\* firmware files: with a payload, without one, and with one that is too big
Firmwares ==
    [len : {magicLen + sigDataLen + n : n \in PayloadLens}
             \cup {magicLen + sigDataLen, magicLen + sigDataLen + maxFirmwareSize + 1},
     magicOk : BOOLEAN]
\* the smallest files that are flashed, and one that is not
ShortFirmwares ==
    [len : {magicLen + sigDataLen, magicLen + sigDataLen + 1}, magicOk : {TRUE}]

Uint8(n) == n % 256
\* uint8(math.Ceil(float64(buf.Len()) / float64(chunkSize)))
TotalChunks(len) == Uint8((len + chunkSize - 1) \div chunkSize)

\* device.onStatusChanged(device.status) of goroutine t, with the status st
Notified(t, st) == [reported EXCEPT ![t] = Append(@, st)]
\* device.query(cmd, data) of goroutine t
Queried(t, cmd, arg) == [commands EXCEPT ![t] = Append(@, [cmd |-> cmd, arg |-> arg])]

UpgradeFailed_StillUpgrading(t, msg) ==
    LET st == [deviceStatus EXCEPT !.ErrMsg = msg]
    IN  /\ deviceStatus' = st
        /\ reported' = Notified(t, st)
        /\ upg' = [upg EXCEPT ![t].pc = "out", ![t].err = msg]
\* UpgradeFirmware after flashSignedFirmware returned err
UpgradeFailed(t, msg) ==
    LET st == [deviceStatus EXCEPT !.Upgrading = FALSE, !.ErrMsg = msg]
    IN  /\ deviceStatus' = st
        /\ reported' = Notified(t, st)
        /\ upg' = [upg EXCEPT ![t].pc = "out", ![t].err = msg]

\* onProgress(progress)
OnProgress(t, progress) ==
    LET st == [deviceStatus EXCEPT !.Upgrading = TRUE, !.Progress = progress]
    IN  /\ deviceStatus' = st
        /\ reported' = Notified(t, st)

\* UpgradeFirmware(firmware) called by goroutine t: the check of Upgrading and
\* the first onStatusChanged; what the call sends and reports is logged anew
UpgradeFirmware(t, firmware) ==
    /\ upg[t].pc = "out"
    /\ commands' = [commands EXCEPT ![t] = <<>>]
    /\ IF deviceStatus.Upgrading
       THEN /\ upg' = [upg EXCEPT ![t] = [NotUpgrading EXCEPT !.err = "already in progress"]]
            /\ reported' = [reported EXCEPT ![t] = <<>>]
       ELSE /\ upg' = [upg EXCEPT ![t] = [NotUpgrading EXCEPT !.pc = "check",
                                                             !.err = "none",
                                                             !.firmware = firmware]]
            /\ reported' = [reported EXCEPT ![t] = <<deviceStatus>>]
    /\ UNCHANGED <<deviceStatus, linkVars, stepVars, readVars, devVars>>

\* the error of the checks flashSignedFirmware and flashUnsignedFirmware make
\* before anything is sent
CheckError(firmware) ==
    IF firmware.len <= magicLen + sigDataLen THEN "firmware too small"
    ELSE IF ~firmware.magicOk THEN "invalid signing pubkeys data magic"
    ELSE IF firmware.len - magicLen - sigDataLen > firmwareChunks * chunkSize
         THEN "firmware too big"
    ELSE "none"

\* flashSignedFirmware up to progressCallback(0)
FlashChecks(t) ==
    /\ upg[t].pc = "check"
    /\ LET err == CheckError(upg[t].firmware)
           len == upg[t].firmware.len - magicLen - sigDataLen
       IN  IF err # "none"
           THEN UpgradeFailed(t, err)
           ELSE /\ OnProgress(t, Quotient(0, 1))
                /\ upg' = [upg EXCEPT ![t].pc = "erase", ![t].left = len,
                                      ![t].totalChunks = TotalChunks(len),
                                      ![t].progress = <<Quotient(0, 1)>>]
    /\ UNCHANGED <<commands, linkVars, stepVars, readVars, devVars>>

\* device.erase(totalChunks)
Erase(t) ==
    /\ upg[t].pc = "erase"
    /\ commands' = Queried(t, "e", upg[t].totalChunks)
    /\ \E ok \in BOOLEAN :
          IF ok
          THEN /\ upg' = [upg EXCEPT ![t].pc = "chunk"]
               /\ UNCHANGED <<deviceStatus, reported>>
          ELSE UpgradeFailed(t, "erase")
    /\ UNCHANGED <<linkVars, stepVars, readVars, devVars>>

WriteChunk_SameNumber(t) ==
    /\ upg[t].pc = "chunk"
    /\ commands' = Queried(t, "w", upg[t].chunkNum)
    /\ \E ok \in BOOLEAN :
          IF ok
          THEN LET readLen == Min(chunkSize, upg[t].left)
                   chunkNum == Uint8(upg[t].chunkNum + 1)
               IN  /\ OnProgress(t, Quotient(chunkNum, upg[t].totalChunks))
                   /\ upg' = [upg EXCEPT ![t].left = @ - readLen,
                                         ![t].progress =
                                             Append(@, Quotient(chunkNum, upg[t].totalChunks)),
                                         ![t].pc = IF upg[t].left - readLen = 0
                                                   THEN "sig" ELSE "chunk"]
          ELSE UpgradeFailed(t, "write")
    /\ UNCHANGED <<linkVars, stepVars, readVars, devVars>>
\* one round of the loop of flashUnsignedFirmware: the next chunk is read
\* from the buffer and written, and the progress is reported
WriteChunk(t) ==
    /\ upg[t].pc = "chunk"
    /\ commands' = Queried(t, "w", upg[t].chunkNum)
    /\ \E ok \in BOOLEAN :
          IF ok
          THEN LET readLen == Min(chunkSize, upg[t].left)
                   chunkNum == Uint8(upg[t].chunkNum + 1)
               IN  /\ OnProgress(t, Quotient(chunkNum, upg[t].totalChunks))
                   /\ upg' = [upg EXCEPT ![t].chunkNum = chunkNum,
                                         ![t].left = @ - readLen,
                                         ![t].progress =
                                             Append(@, Quotient(chunkNum, upg[t].totalChunks)),
                                         ![t].pc = IF upg[t].left - readLen = 0
                                                   THEN "sig" ELSE "chunk"]
          ELSE UpgradeFailed(t, "write")
    /\ UNCHANGED <<linkVars, stepVars, readVars, devVars>>

\* device.query('s', sigData), and on success the status of a finished
\* upgrade
WriteSig(t) ==
    /\ upg[t].pc = "sig"
    /\ commands' = Queried(t, "s", 0)
    /\ \E ok \in BOOLEAN :
          IF ok
          THEN LET st == [deviceStatus EXCEPT !.Progress = Quotient(0, 1),
                                              !.UpgradeSuccessful = TRUE]
               IN  /\ deviceStatus' = st
                   /\ reported' = Notified(t, st)
                   /\ upg' = [upg EXCEPT ![t].pc = "countdown",
                                         ![t].seconds = rebootSeconds]
          ELSE UpgradeFailed(t, "signature")
    /\ UNCHANGED <<linkVars, stepVars, readVars, devVars>>

\* one round of the countdown: RebootSeconds is set and reported, and the
\* goroutine sleeps a second
Countdown(t) ==
    /\ upg[t].pc = "countdown"
    /\ LET st == [deviceStatus EXCEPT !.RebootSeconds = upg[t].seconds]
       IN  /\ deviceStatus' = st
           /\ reported' = Notified(t, st)
    /\ upg' = [upg EXCEPT ![t].seconds = @ - 1,
                          ![t].pc = IF upg[t].seconds - 1 > 0 THEN "countdown"
                                    ELSE "reboot"]
    /\ UNCHANGED <<commands, linkVars, stepVars, readVars, devVars>>

\* `return device.Reboot()`
Reboot(t) ==
    /\ upg[t].pc = "reboot"
    /\ commands' = Queried(t, "r", 0)
    /\ \E ok \in BOOLEAN :
          upg' = [upg EXCEPT ![t].pc = "out", ![t].err = IF ok THEN "none" ELSE "reboot"]
    /\ UNCHANGED <<deviceStatus, reported, linkVars, stepVars, readVars, devVars>>

\* the goroutine of the upgrades that are called one after the other
Upgrader == "u1"

\* upgrades called one after the other, by one goroutine
UpgradeNext ==
    \/ \E firmware \in Firmwares : UpgradeFirmware(Upgrader, firmware)
    \/ FlashChecks(Upgrader)
    \/ Erase(Upgrader)
    \/ WriteChunk(Upgrader)
    \/ WriteSig(Upgrader)
    \/ Countdown(Upgrader)
    \/ Reboot(Upgrader)

UpgradeSpec == Init /\ [][UpgradeNext]_vars

\* two goroutines that each call UpgradeFirmware once, whenever they like
UpgradeRaceNext ==
    \/ \E t \in UpgTasks, firmware \in ShortFirmwares :
          upg[t].err = "unset" /\ UpgradeFirmware(t, firmware)
    \/ \E t \in UpgTasks : FlashChecks(t)
    \/ \E t \in UpgTasks : Erase(t)
    \/ \E t \in UpgTasks : WriteChunk(t)
    \/ \E t \in UpgTasks : WriteSig(t)
    \/ \E t \in UpgTasks : Countdown(t)
    \/ \E t \in UpgTasks : Reboot(t)

UpgradeRaceSpec == Init /\ [][UpgradeRaceNext]_vars

(* ------------------------ the bitbox02 Device -------------------------- *)

\* the events of firmware.Device and the two the bitbox02 Device adds
FirmwareEventStatusChanged == "statusChanged"
FirmwareEvents == {FirmwareEventStatusChanged, "channelHashChanged"}
EventKeystoreAvailable == "keystoreAvailable"
EventKeystoreGone == "keystoreGone"
\* the observers SetOnEvent is called with
Observers == {"o1"}

\* device.fireEvent(event): the observer is read and, unless it is nil, it is
\* called; an event that finds no observer is logged with "nil"
Fired(event) == Append(delivered, [to |-> onEvent, event |-> event])

\* firmware.Device changes its status
FirmwareStatus(st) ==
    /\ fwStatus # st
    /\ fwStatus' = st
    /\ UNCHANGED <<onEvent, delivered, handler, returned, linkVars, stepVars, readVars, bootVars>>

OnFirmwareEvent_Silent(f, ev) ==
    /\ handler[f] = "out"
    /\ Len(delivered) < MaxFired
    /\ delivered' = IF ev = FirmwareEventStatusChanged THEN delivered ELSE Fired(ev)
    /\ handler' = [handler EXCEPT ![f] = IF ev = FirmwareEventStatusChanged
                                         THEN "fired" ELSE "out"]
    /\ UNCHANGED <<onEvent, fwStatus, returned, linkVars, stepVars, readVars, bootVars>>
\* firmware.Device calls the callback of NewDevice with ev: the event is
\* fired, and only a status change needs a second look
OnFirmwareEvent(f, ev) ==
    /\ handler[f] = "out"
    /\ Len(delivered) < MaxFired
    /\ delivered' = Fired(ev)
    /\ handler' = [handler EXCEPT ![f] = IF ev = FirmwareEventStatusChanged
                                         THEN "fired" ELSE "out"]
    /\ UNCHANGED <<onEvent, fwStatus, returned, linkVars, stepVars, readVars, bootVars>>

\* the callback after a status change: Status() is read and, if the device is
\* initialized, the keystore is announced
OnStatusChanged(f) ==
    /\ handler[f] = "fired"
    /\ delivered' = IF fwStatus = FirmwareStatusInitialized
                    THEN Fired(EventKeystoreAvailable) ELSE delivered
    /\ handler' = [handler EXCEPT ![f] = "out"]
    /\ UNCHANGED <<onEvent, fwStatus, returned, linkVars, stepVars, readVars, bootVars>>

\* SetOnEvent(onEvent)
SetOnEvent(o) ==
    /\ onEvent # o
    /\ onEvent' = o
    /\ UNCHANGED <<fwStatus, delivered, handler, returned, linkVars, stepVars, readVars, bootVars>>

\* Reset(): firmware.Device's Reset fails or not
Reset ==
    /\ Len(delivered) < MaxFired
    /\ \E ok \in BOOLEAN :
          IF ok
          THEN /\ delivered' = Fired(EventKeystoreGone)
               /\ returned' = [op |-> "Reset", value |-> "nil"]
          ELSE /\ returned' = [op |-> "Reset", value |-> "err"]
               /\ UNCHANGED delivered
    /\ UNCHANGED <<onEvent, fwStatus, handler, linkVars, stepVars, readVars, bootVars>>

\* KeystoreForConfiguration(configuration, cosignerIndex)
KeystoreForConfiguration ==
    /\ returned' = [op |-> "KeystoreForConfiguration",
                    value |-> IF fwStatus # FirmwareStatusInitialized
                              THEN "nil" ELSE "keystore"]
    /\ UNCHANGED <<onEvent, fwStatus, delivered, handler, linkVars, stepVars, readVars, bootVars>>

DeviceNext ==
    \/ \E st \in FirmwareStatuses : FirmwareStatus(st)
    \/ \E f \in FirmwareTasks, ev \in FirmwareEvents : OnFirmwareEvent(f, ev)
    \/ \E f \in FirmwareTasks : OnStatusChanged(f)
    \/ \E o \in Observers \cup {"nil"} : SetOnEvent(o)
    \/ Reset
    \/ KeystoreForConfiguration

DeviceSpec == Init /\ [][DeviceNext]_vars

(* ------------------------------- claims -------------------------------- *)

AllIdle == \A c \in AllCallers : callers[c].pc = "idle"
NothingExchanged ==
    /\ client = NilClient /\ loops = "none" /\ ~active
    /\ peerInbox = {} /\ wsIn = <<>> /\ AllIdle

\* C1: a handshake that presents another static key than the pinned one makes
\* Connect fail with the pin-mismatch error; no rpc client and no loops are
\* created, no RPC payload is sent, received or handed over, and the base
\* does not become active.
C1_PinMismatchRejected ==
    /\ [][(/\ connPc = "dialed" /\ connPc' # "dialed"
           /\ Lookup.found
           /\ bitboxBaseNoiseStaticPubkey' # NoKey
           /\ bitboxBaseNoiseStaticPubkey' # pinned)
          => (connErr' = "pinmismatch" /\ connPc' = "idle" /\ NothingExchanged')]_vars
    /\ [](connErr = "pinmismatch" => NothingExchanged)

C1_Witness ==
    /\ connErr = "pinmismatch"
    /\ pinned \in Keys
    /\ bitboxBaseNoiseStaticPubkey \in (Keys \cup {MitmKey}) \ {pinned}

\* C2: a pinned key changes only by the user's Remove or explicit Pin; no
\* connect, handshake, call or close overwrites it.
C2_PinnedKeyKept ==
    [][(pinned # NoKey /\ pinned' # pinned)
       => (PairingRemove \/ \E k \in Keys : PairingPin(k))]_vars

C2_Witness ==
    /\ pinned = "K1"
    /\ bitboxBaseNoiseStaticPubkey = "K2"
    /\ connErr = "pinmismatch"

\* C3: the first successful handshake with an identity that has no pinned
\* key pins the static key presented in it.
C3_TrustOnFirstUse ==
    [][(connPc = "dialed" /\ ~Lookup.found /\ connPc' = "getenv")
       => (pinned' = bitboxBaseNoiseStaticPubkey' /\ pinned' # NoKey)]_vars

C3_Witness ==
    /\ connPc = "getenv" /\ client = NewClient
    /\ pinned # NoKey /\ pinned = bitboxBaseNoiseStaticPubkey

\* C4: ChannelHash reports verified = true only when the fingerprint was
\* verified by the local user and by the remote party.
C4_VerifiedNeedsBothFlags ==
    ChannelHash[2] => (channelHashAppVerified /\ channelHashBitBoxBaseVerified)

C6_NoCrossTalk ==
    \A c \in AllCallers :
        (callers[c].pc = "returned" /\ callers[c].err = "none")
        => callers[c].res = ReplyTo(callers[c].seq)

\* c1 made two calls one after the other (seq 0 and 1; GetEnv was not yet
\* issued) and a notification was delivered
C6_Witness ==
    /\ callers[Connector].pc = "idle"
    /\ callers["c1"].pc = "returned" /\ callers["c1"].err = "none"
    /\ callers["c1"].seq = 1 /\ callers["c1"].res = ReplyTo(1)
    /\ notified # <<>>

C8_PendingReturnsAfterClose ==
    \A c \in AllCallers :
        (InFlight(c) /\ client.state = "closing")
        ~> (callers[c].pc = "returned" /\ callers[c].err # "none")

C10_PendingFailsAfterSocketError ==
    \A c \in AllCallers :
        (InFlight(c) /\ loops = "failed")
        ~> (callers[c].pc = "returned" /\ callers[c].err # "none")

\* the observer got nothing but, possibly, the disconnect event
NoDispatch ==
    /\ notified' \in {notified, fireEvent(EventDisconnect)}
    /\ client' = client
    /\ callers' = callers

\* C11: a frame with a tag that does not match, a truncated frame, a frame
\* delivered again or out of its turn is not passed on to the dispatcher and
\* not skipped: no event is fired for it, nothing reaches the rpc client, and
\* the connection is torn down.
C11_DecryptFailsClosed ==
    [][NetInject => (/\ loops' = "undecryptable"
                     /\ NoDispatch
                     /\ wsIn' = <<>> /\ receiveCipher' = NoCipher
                     /\ active' = FALSE)]_vars

\* a notification was delivered on an active base, then a forged frame
\* ended the connection
C11_Witness ==
    /\ loops = "undecryptable"
    /\ notified = <<EventSampleInfoChange, EventDisconnect>>
    /\ unregistered = 1 /\ ~active

\* the read loop accepted the frame at the head of the socket
Accepted == loops = "running" /\ loops' = "running" /\ wsIn # <<>> /\ wsIn' = Tail(wsIn)

\* C12: each direction has its own counter, which goes up by one with every
\* message of that direction and is left alone by the other direction; a
\* frame is accepted only when its counter is the one the receiver expects.
C12_CountersPerDirection ==
    [][/\ (receiveCipher' # receiveCipher /\ receiveCipher'.k = receiveCipher.k)
           => /\ receiveCipher'.n = receiveCipher.n + 1
              /\ Accepted
              /\ Head(wsIn).tag[2] = receiveCipher.n
              /\ sendCipher' = sendCipher /\ peerSend' = peerSend
       /\ Accepted => receiveCipher'.n = receiveCipher.n + 1
       /\ (sendCipher' # sendCipher /\ sendCipher'.k = sendCipher.k)
           => /\ sendCipher'.n = sendCipher.n + 1
              /\ peerReceive'.n = peerReceive.n + 1
              /\ receiveCipher' = receiveCipher /\ peerSend' = peerSend
       /\ (peerSend' # peerSend /\ peerSend'.k = peerSend.k)
           => /\ peerSend'.n = peerSend.n + 1
              /\ sendCipher' = sendCipher /\ receiveCipher' = receiveCipher]_vars

\* both directions have carried messages: two requests went out, and the
\* third frame from the appliance is awaited
C12_Witness ==
    /\ loops = "running"
    /\ sendCipher.n = 2 /\ receiveCipher.n = 2 /\ peerSend.n = 3

\* the plaintexts the two directions carry: requests, and responses and
\* unsolicited frames
Requests == {<<s>> : s \in 0..(MaxSeq - 1)}

\* a body with a bit of it flipped: another body
Flipped(body) == body \o <<"flipped">>

\* frame with one part of it altered: the body, the counter or the body
\* under the tag, or the tag cut short
Altered(frame) ==
    {[frame EXCEPT !.body = Flipped(@)],
     [frame EXCEPT !.tag[2] = @ + 1],
     [frame EXCEPT !.tag[3] = Flipped(@)],
     [frame EXCEPT !.tag = SubSeq(@, 1, 2)]}

\* frame opens under cs to the payload it carries, and altered it does not
RoundTrip(cs, frame) ==
    /\ Decrypt(cs, frame) = [err |-> "none", plaintext |-> frame.body]
    /\ \A f \in Altered(frame) : Decrypt(cs, f).err # "none"

EarlierKeys == {SessionKey(e, dir) : e \in 1..(handshakes - 1), dir \in {"in", "out"}}

\* C14: the cipher states in use were derived in the connection's own
\* handshake: they and the frames in the socket carry no key of an earlier
\* connection, no frame of an earlier connection decrypts, and once the
\* connection has ended its cipher states are gone.
C14_FreshCiphers ==
    /\ loops = "running" =>
          /\ sendCipher.k = SessionKey(handshakes, "out")
          /\ receiveCipher.k = SessionKey(handshakes, "in")
          /\ {sendCipher.k, receiveCipher.k, peerSend.k, peerReceive.k}
                 \cap EarlierKeys = {}
          /\ \A i \in 1..Len(wsIn) : wsIn[i].tag[1] \notin EarlierKeys
          /\ \A k \in EarlierKeys, nn \in 0..(MaxSeq + MaxEvents) :
                 Decrypt(receiveCipher,
                         Encrypt([k |-> k, n |-> nn], <<OpUCanHasSampleInfo>>)).err # "none"
    /\ loops # "running" =>
          /\ sendCipher = NoCipher /\ receiveCipher = NoCipher
          /\ wsIn = <<>>

\* the second connection is up and has carried traffic in both directions
C14_Witness ==
    /\ handshakes = 2 /\ loops = "running"
    /\ sendCipher.n >= 1 /\ receiveCipher.n >= 1 /\ wsIn # <<>>

\* C15 (as claimed): Stop called again on a client that Stop has closed
\* reports no error.
C15_SecondStopNoError ==
    client.state = "closing" => ClientClose(client).err = "none"

\* C16: after rpcConn.Close a task blocked in rpcConn.Write, and the task
\* blocked in rpcConn.Read, eventually returns.
C16_CloseUnblocks ==
    /\ \A c \in AllCallers :
          (closeChan = "nil" /\ callers[c].pc = "writing") ~> (callers[c].pc # "writing")
    /\ (closeChan = "nil" /\ client.input = "reading") ~> (client.input # "reading")

\* the read loop accepted the frame at the head of the socket and parseMessage
\* dropped it: it is empty or its first byte is no known opcode
Dropped ==
    /\ Accepted
    /\ \/ Len(Head(wsIn).body) = 0
       \/ Head(wsIn).body[1] \notin
              {OpRPCCall, OpUCanHasSampleInfo, OpUCanHasVerificationProgress}

\* C17: a frame that is empty or starts with an unknown opcode is dropped: no
\* event, nothing for the rpc client, the connection stays as it is, and the
\* read loop goes on with the frames behind it.
C17_UnknownFrameDropped ==
    /\ [][Dropped => /\ UNCHANGED <<notified, client, callers, loops, closeChan,
                                    active, unregistered, peerInbox>>
                     /\ receiveCipher' = Advance(receiveCipher)]_vars
    /\ [](/\ loops = "running" /\ wsIn # <<>> /\ ~panicked
          /\ \/ Len(Head(wsIn).body) = 0
             \/ Head(wsIn).body[1] \notin
                    {OpRPCCall, OpUCanHasSampleInfo, OpUCanHasVerificationProgress}
          => ENABLED ReadLoopStep)

\* a dropped frame came first, then the notification behind it was delivered
C17_Witness ==
    /\ loops = "running" /\ client = NewClient
    /\ nEvents = 2 /\ receiveCipher.n = 2
    /\ notified = <<EventVerificationProgressChange>>

\* C18: the frames on the socket are those of the requests in the order in
\* which their writes were made: the i-th frame carries the i-th request
\* registered with the client, under the i-th counter.
C18_WriteOrderKept ==
    \A i \in 1..Len(wsOut) :
        /\ wsOut[i].body = <<i - 1>>
        /\ wsOut[i].tag[2] = i - 1

\* GetEnv and a second call were written, GetEnv first
C18_Witness ==
    /\ Len(wsOut) = 2
    /\ callers[Connector].seq = 0 /\ callers["c1"].seq = 1
    /\ callers["c1"].pc = "waiting"

\* the event of a notification opcode
EventOf(op) ==
    IF op = OpUCanHasSampleInfo THEN EventSampleInfoChange
    ELSE EventVerificationProgressChange

\* C19: a notification frame makes one call of the observer, with the event
\* of its opcode, placed after the events of the frames before it; no other
\* frame makes any, and the only other event is the disconnect.
C19_OneEventPerFrameInOrder ==
    [][/\ Accepted =>
            IF /\ Len(Head(wsIn).body) > 0
               /\ Head(wsIn).body[1] \in
                      {OpUCanHasSampleInfo, OpUCanHasVerificationProgress}
            THEN notified' = Append(notified, EventOf(Head(wsIn).body[1]))
            ELSE notified' = notified
       /\ notified' # notified =>
            \/ Accepted
            \/ notified' = Append(notified, EventDisconnect)
            \/ notified' = <<>>]_vars

\* two notifications arrived one after the other and were delivered so
C19_Witness ==
    /\ notified = <<EventSampleInfoChange, EventVerificationProgressChange>>
    /\ receiveCipher.n = 2 /\ loops = "running"

\* C20: while a write is blocked on writeChan the read loop is able to take
\* the next frame, as long as the rpc client is reading.
C20_ReadLoopNotBlockedByWrite ==
    (/\ \E c \in AllCallers : callers[c].pc = "writing"
     /\ loops = "running" /\ wsIn # <<>> /\ ~panicked
     /\ client.input = "reading")
    => ENABLED ReadLoopStep

\* a request is waiting to be taken from writeChan while the response to an
\* earlier one is in the socket
C20_Witness ==
    /\ callers["c1"].pc = "writing"
    /\ callers[Connector].pc = "waiting"
    /\ loops = "running" /\ wsIn # <<>>
    /\ Head(wsIn).body = <<OpRPCCall, 0, ReplyTo(0)>>

\* C21: when the liveness probe has no success (the request fails, or the
\* status of the response is not 200), Connect returns an error that is not
\* nil: it goes on to the dial only after a success, and reports the failure
\* otherwise.
C21_ProbeFailureIsError ==
    [][ConnectPing => (connPc' = "pinged" \/ connErr' # "none")]_vars

\* what Connect does beyond the probe: the socket, the handshake, the loops
BeyondProbe == <<handshakes, cipherVars, pairingVars, client, loops, wireVars>>

\* C22: the dial follows a probe that succeeded and the handshake follows the
\* dial; a probe that does not succeed (no response, or a status that is not
\* 200) ends Connect there: no socket is dialled, no handshake is made.
C22_ProbeBeforeHandshake ==
    /\ [][\A response \in Responses \ {"200"} :
             (ConnectPing /\ ConnectProbe(response))
             => (connPc' \notin {"pinged", "dialed"} /\ UNCHANGED BeyondProbe)]_vars
    /\ [][(connPc' = "pinged" /\ connPc # "pinged")
             => (connPc = "idle" /\ UNCHANGED BeyondProbe)]_vars
    /\ [][(connPc' = "dialed" /\ connPc # "dialed") => connPc = "pinged"]_vars
    /\ [][handshakes' # handshakes => connPc = "dialed"]_vars

\* a probe got no response and Connect has returned its error: nothing was
\* dialled on this connection
C22_Witness ==
    /\ connPc = "idle" /\ connErr = "unreachable"
    /\ client = NilClient /\ loops = "none" /\ handshakes = 0

\* C23: Close can be requested in every state of the connection and does not
\* panic: in particular not on a client on which Connect never completed.
C23_CloseNeverPanics ==
    [][Stop => ~panicked']_vars

\* C24: Closed is terminal: once Close has been made on a connection, no
\* operation on the same object opens it again; only a new object (Register)
\* starts from the beginning.
C24_ClosedIsTerminal ==
    [][(client.state = "closing" /\ ~Register) => client'.state = "closing"]_vars

\* the state of the connection state machine (4.5) the object is in, read
\* from the fields the code keeps: Connect's position and result, the rpc
\* client, the two confirmations of the fingerprint.  An object on which a
\* Connect was begun and no session exists, also one whose Connect failed and
\* can be tried again, counts as Connecting.
TopState ==
    IF client.state = "closing" THEN "Closed"
    ELSE IF client.state = "open"
         THEN IF channelHashAppVerified /\ channelHashBitBoxBaseVerified
              THEN "Active" ELSE "AwaitingPairing"
    ELSE IF connPc = "idle" /\ connErr = "none" THEN "Disconnected"
    ELSE "Connecting"

\* the place of a state in Disconnected, Connecting, AwaitingPairing, Active,
\* Closed
Rank(state) ==
    CASE state = "Disconnected" -> 0
      [] state = "Connecting" -> 1
      [] state = "AwaitingPairing" -> 2
      [] state = "Active" -> 3
      [] state = "Closed" -> 4

\* the user's explicit re-pairing
RePairing == PairingRemove \/ \E k \in Keys : PairingPin(k)

\* C25: the state of one connection object only moves forward along
\* Disconnected, Connecting, AwaitingPairing, Active, Closed; the one step
\* back is an explicit re-pairing, which leads to Connecting.
C25_ForwardOnly ==
    [][~Register =>
          \/ Rank(TopState') >= Rank(TopState)
          \/ RePairing /\ TopState' = "Connecting"]_vars

\* Connect is between the probe and the end of the handshake
MidHandshake == connPc \in {"pinged", "dialed"}

\* C26: a call made while the connection is in the handshake is neither
\* turned down at once nor does it crash: it waits for the connection.
C26_CallWaitsForHandshake ==
    [][\A c \in Callers :
          (MidHandshake /\ (FacadeCall(c) \/ CallStart(c)))
          => (~panicked' /\ callers'[c].pc # "returned")]_vars

Refused(c) ==
    /\ callers[c].pc = "returned" /\ callers[c].err = "none"
    /\ callers[c].res = RefusalTo(callers[c].seq)

\* C28: a reply whose Success is false is an error for the caller of that
\* call and for nobody else: the step that delivers it leaves the rpc
\* client, the loops, the close channel, the base and the other callers as
\* they are, and a call made after it on the open connection is sent like
\* any other.
C28_RefusalIsCallersOnly ==
    /\ [](\A c \in Callers :
             /\ Refused(c) => FacadeResult(callers[c]) = "refused"
             /\ (callers[c].pc = "returned" /\ callers[c].err = "none"
                 /\ callers[c].res = ReplyTo(callers[c].seq))
                => FacadeResult(callers[c]) = "none")
    /\ [][\A c \in Callers :
             (callers[c].pc # "returned" /\ Refused(c)')
             => /\ client'.state = client.state /\ client'.input = client.input
                /\ UNCHANGED <<loops, closeChan, baseVars, connPc, connErr, panicked>>
                /\ \A d \in AllCallers \ {c} : callers'[d] = callers[d]]_vars
    /\ [][\A c \in Callers :
             (Refused(c) /\ client.state = "open" /\ client.input = "reading"
              /\ (CallStart(c) \/ (active /\ FacadeCall(c))))
             => callers'[c].pc = "writing"]_vars

\* c1's call was refused; GetEnv, made after it on the same connection, got
\* its reply and the base is active
C28_Witness ==
    /\ Refused("c1") /\ callers["c1"].seq = 0
    /\ callers[Connector].pc = "returned"
    /\ callers[Connector].res = ReplyTo(1)
    /\ active /\ client.state = "open" /\ loops = "running"

\* the accesses to the fields of BitBoxBase that goroutines are about to
\* make: the field, the goroutine, and whether it writes.  active is written
\* at the end of ConnectRPCClient and by Deregister, which the loops call as
\* onUnregister, and read by every method; status is written by
\* changeStatus and read by Status()
Accesses ==
    (IF ENABLED StatusNotify
     THEN {[task |-> "loops", field |-> "status", write |-> TRUE]} ELSE {})
    \cup (IF active /\ (ENABLED LoopsExitOnClose)
          THEN {[task |-> "loops", field |-> "active", write |-> TRUE]} ELSE {})
    \cup (IF ENABLED ConnectFinish
          THEN {[task |-> Connector, field |-> "active", write |-> TRUE]} ELSE {})
    \cup {[task |-> c, field |-> "active", write |-> FALSE] :
             c \in {d \in Callers : ENABLED FacadeCall(d)}}
    \cup {[task |-> c, field |-> "status", write |-> FALSE] :
             c \in {d \in Callers : ~panicked}}

\* the locks a goroutine holds at an access: BitBoxBase and RPCClient have no
\* mutex and their methods take none
Locks(access) == {}

\* C29: no field shared between the background path and the accessors is
\* written by one goroutine while another reads or writes it, unless both
\* hold a common lock.
C29_NoUnsynchronizedAccess ==
    \A a, b \in Accesses :
        (a.task # b.task /\ a.field = b.field /\ (a.write \/ b.write))
        => Locks(a) \cap Locks(b) # {}

\* C30: once a key is pinned for the base, a later handshake in which the
\* base presents that same key makes Connect succeed (no pin-mismatch error
\* that would ask for re-pairing, the rpc client is created and the loops
\* start) and leaves the pinned key as it was.  The step that leaves "dialed"
\* is the handshake of Connect.
C30_SameKeyReconnects ==
    [][(connPc = "dialed" /\ connPc' # "dialed" /\ Lookup.found
          /\ bitboxBaseNoiseStaticPubkey' = pinned)
          => /\ connErr' = "none"
             /\ connPc' = "getenv"
             /\ handshakes' = handshakes + 1
             /\ client' = NewClient
             /\ loops' = "running"
             /\ pinned' = pinned]_vars
C30_Witness ==
    /\ handshakes = 2
    /\ pinned = "K1"
    /\ bitboxBaseNoiseStaticPubkey = "K1"
    /\ connErr = "none" /\ connPc = "done" /\ active
    /\ client.state = "open" /\ loops = "running"

\* the disconnect events the observer has been sent
Disconnects == Len(SelectSeq(notified, LAMBDA e : e = EventDisconnect))
\* the last Deregister of goroutine t returned nil
ReturnedNil(t) == dereg[t] = [pc |-> "out", err |-> "none"]
\* goroutine t is the only one that has called Deregister
OnlyCaller(t) == \A u \in DeregTasks \ {t} : dereg[u] = NotInDeregister

\* C31: Deregister on a base that is not active returns the error and leaves
\* the observer, the unregister callback and the base untouched; on an active
\* base it sends the disconnect event, then calls onUnregister once, then
\* clears active and returns nil; a Deregister that starts after one has
\* returned nil returns the error without a further event or callback.
C31_DeregisterContract ==
    /\ [][\A t \in DeregTasks :
            (dereg[t].pc = "out" /\ dereg'[t] # dereg[t] /\ ~active)
               => /\ dereg'[t] = [pc |-> "out", err |-> "nonactive"]
                  /\ UNCHANGED baseVars]_vars
    /\ [][\A t \in DeregTasks :
            (dereg[t].pc = "out" /\ dereg'[t] # dereg[t]
               /\ \E u \in DeregTasks : ReturnedNil(u))
               => /\ dereg'[t] = [pc |-> "out", err |-> "nonactive"]
                  /\ UNCHANGED baseVars]_vars
    /\ [][\A t \in DeregTasks :
            (dereg[t].pc = "clear" /\ dereg'[t].pc # "clear")
               => /\ ~active' /\ dereg'[t] = [pc |-> "out", err |-> "none"]
                  /\ UNCHANGED <<notified, unregistered>>]_vars
    /\ [](\A t \in DeregTasks :
            OnlyCaller(t) =>
               /\ Disconnects <= 1 /\ unregistered <= 1
               /\ dereg[t].pc = "fire" => (Disconnects = 0 /\ unregistered = 0)
               /\ dereg[t].pc = "unregister" => (Disconnects = 1 /\ unregistered = 0)
               /\ dereg[t].pc = "clear" => (Disconnects = 1 /\ unregistered = 1)
               /\ ReturnedNil(t) => (Disconnects = 1 /\ unregistered = 1 /\ ~active))
C31_Witness ==
    /\ dereg["d1"] = [pc |-> "out", err |-> "nonactive"]
    /\ dereg["d2"] = NotInDeregister
    /\ unregistered = 1 /\ Disconnects = 1 /\ ~active
    /\ connPc = "done"

\* C32 (as claimed): the bytes rpcConn.Read has returned to the rpc reader are
\* the bytes of the payloads it took from readChan, in order and complete.
C32_ReadDeliversAll == stream = taken

\* C33 (as claimed): whatever the interleaving of the goroutines that call
\* Deregister on one active base, onUnregister is called at most once and at
\* most one disconnect event is sent.
C33_DeregisterOnce == unregistered <= 1 /\ Disconnects <= 1

\* a step in which ConnectRPCClient returns an error
ConnectFails == connErr' # "none" /\ (connErr' # connErr \/ connPc' # connPc)

\* C34 (as claimed): the base is active only when the last ConnectRPCClient
\* that returned came through Connect and GetEnv without an error (connPc is
\* "idle" or "failed" after one that returned an error); active is set by that
\* success alone and cleared by a successful Deregister; a ConnectRPCClient
\* that fails leaves the base not active and network and electrsRPCPort as
\* they were.
C34_ActiveOnlyAfterConnect ==
    /\ [](active => (connPc \notin {"idle", "failed"} /\ connErr = "none"))
    /\ [][(active' /\ ~active)
             => (connPc = "getenv" /\ connPc' = "done" /\ connErr' = "none"
                 /\ callers[Connector].err = "none")]_vars
    /\ [][unregistered' # unregistered => ~active']_vars
    /\ [][ConnectFails => (~active' /\ UNCHANGED <<network, electrsRPCPort>>)]_vars

\* C35: a method of the base that makes a remote call (GetHostname and the
\* like, ReindexBitcoin, ResyncBitcoin, ConnectElectrum), called while the base
\* is not active, returns the error at once: no request is registered on the
\* rpc client or written, and status, active, the configuration and the
\* observer are left as they were.
C35_NonActiveRejected ==
    /\ [][\A c \in Callers :
            (~active /\ callers[c].pc \in {"idle", "returned"} /\ callers'[c] # callers[c])
               => /\ callers'[c] = NonActive
                  /\ UNCHANGED <<client, wireVars, sendCipher, baseVars, syncCalls>>]_vars
    /\ [][(~active /\ electrumErr' # electrumErr)
             => /\ electrumErr' = "nonactive"
                /\ UNCHANGED <<client, wireVars, sendCipher, callers, baseVars>>]_vars
    /\ [](\A c \in Callers : syncCalls[c] # "none" => callers[c] # NonActive)
C35_Witness ==
    /\ ~active /\ connPc = "done" /\ unregistered = 1
    /\ callers["c1"] = NonActive
    /\ electrumErr = "nonactive"
    /\ client.state = "open" /\ loops = "running" /\ wsOut # <<>>
    /\ status = StatusInitialized

\* C36 (as claimed): when ReindexBitcoin or ResyncBitcoin fails, by an error
\* of the call or by a reply with Success = false, the status of the base is
\* left as it was and the observer is sent no event.
C36_FailedSyncKeepsStatus ==
    [][\A c \in Callers :
          (syncCalls[c] # "none" /\ syncCalls'[c] = "none"
             /\ FacadeResult(callers[c]) # "none")
             => UNCHANGED <<status, notified>>]_vars

\* goroutine t is inside UpgradeFirmware
Upgrading(t) == upg[t].pc # "out"

\* C37: an UpgradeFirmware that is called while another one has started and
\* has not returned is refused with "already in progress" and sends no command
C37_OneUpgradeAtATime ==
    /\ [][\A t \in UpgTasks :
            (/\ ~Upgrading(t)
             /\ upg[t].err = "unset"
             /\ upg'[t].err # "unset"
             /\ \E u \in UpgTasks \ {t} : Upgrading(u))
            => (~Upgrading(t)' /\ upg'[t].err = "already in progress")]_vars
    /\ [](\A t \in UpgTasks : upg[t].err = "already in progress" => commands[t] = <<>>)

\* the errors flashSignedFirmware returns
FlashErrors ==
    {"firmware too small", "invalid signing pubkeys data magic", "firmware too big",
     "erase", "write", "signature"}
\* the commands of a log
Sent(log) == {log[i].cmd : i \in 1..Len(log)}

\* C38: an UpgradeFirmware that fails in a check, the erase, a chunk write or
\* the signature write returns the error with Upgrading false and ErrMsg set,
\* reports that status, leaves UpgradeSuccessful alone and has sent no
\* reboot; the call that follows is not refused
C38_FailedUpgradeReported ==
    /\ [][\A t \in UpgTasks :
            (Upgrading(t) /\ ~Upgrading(t)' /\ upg'[t].err \in FlashErrors)
            => /\ ~deviceStatus'.Upgrading
               /\ deviceStatus'.ErrMsg = upg'[t].err
               /\ reported'[t] = Append(reported[t], deviceStatus')
               /\ ~deviceStatus'.UpgradeSuccessful
               /\ "r" \notin Sent(commands'[t])]_vars
    /\ [][\A t \in UpgTasks :
            (~Upgrading(t) /\ upg[t].err \in FlashErrors /\ upg'[t] # upg[t])
            => (Upgrading(t)' /\ upg'[t].err = "none")]_vars
\* a call was let in after a chunk write had failed
C38_Witness ==
    /\ upg[Upgrader].pc = "check"
    /\ deviceStatus.ErrMsg = "write"
    /\ ~deviceStatus.Upgrading

\* the chunk commands with the numbers 0, 1, ..., n - 1
ChunkWrites(n) == [i \in 1..n |-> [cmd |-> "w", arg |-> i - 1]]
\* the commands of a successful upgrade of a firmware with n chunks
UpgradeCommands(n) ==
    <<[cmd |-> "e", arg |-> n]>> \o ChunkWrites(n)
        \o <<[cmd |-> "s", arg |-> 0], [cmd |-> "r", arg |-> 0]>>
\* the chunks of a firmware file: the bytes behind magic and signatures, in
\* pieces of chunkSize
ChunksOf(firmware) ==
    LET len == firmware.len - magicLen - sigDataLen
    IN  (len \div chunkSize) + (IF len % chunkSize = 0 THEN 0 ELSE 1)
IsPrefix(s, t) == Len(s) <= Len(t) /\ \A i \in 1..Len(s) : s[i] = t[i]
\* p is at most q
AtMost(p, q) == p.num * q.den <= q.num * p.den
\* the RebootSeconds of the last n reports of a log
LastSeconds(log, n) == [i \in 1..n |-> log[Len(log) - n + i].RebootSeconds]
\* the progress is 1
Complete(p) == p.num = p.den

LastFired == delivered[Len(delivered)]
\* an event is fired in this step
Fires(event) == delivered' # delivered /\ LastFired'.event = event

\* C40 as stated: a keystore-available event reaches an observer only
\* directly after a status-changed event that reached an observer
C40_KeystoreAvailableDirectlyAfterStatus ==
    \A i \in 1..Len(delivered) :
        (delivered[i].event = EventKeystoreAvailable /\ delivered[i].to # "nil")
        => /\ i > 1
           /\ delivered[i - 1].event = FirmwareEventStatusChanged
           /\ delivered[i - 1].to # "nil"

\* C40, amended: every event goes to the observer registered when it is
\* fired and is dropped when there is none; a status change of the firmware
\* is fired; keystore-available is fired only by the callback of a status
\* change, after that event was fired and when the status then read is
\* Initialized, whoever is registered by then; KeystoreForConfiguration
\* returns a keystore exactly when the status is Initialized; keystore-gone
\* is fired only by a Reset that returns nil
C40_EventsForwarded ==
    /\ [][delivered' # delivered
            => \E ev \in FirmwareEvents \cup {EventKeystoreAvailable, EventKeystoreGone} :
                  delivered' = Append(delivered, [to |-> onEvent, event |-> ev])]_vars
    /\ [][\A f \in FirmwareTasks :
            (handler[f] = "out" /\ handler'[f] = "fired")
            => delivered' = Append(delivered, [to |-> onEvent,
                                               event |-> FirmwareEventStatusChanged])]_vars
    /\ [][Fires(EventKeystoreAvailable)
            => /\ \E f \in FirmwareTasks : handler[f] = "fired" /\ handler'[f] = "out"
               /\ fwStatus = FirmwareStatusInitialized]_vars
    /\ [](\A i \in 1..Len(delivered) :
            delivered[i].event = EventKeystoreAvailable
            => \E j \in 1..(i - 1) : delivered[j].event = FirmwareEventStatusChanged)
    /\ [][(returned' # returned /\ returned'.op = "KeystoreForConfiguration")
            => (returned'.value = "keystore" <=> fwStatus = FirmwareStatusInitialized)]_vars
    /\ [][Fires(EventKeystoreGone) => returned' = [op |-> "Reset", value |-> "nil"]]_vars
\* an observer got a status change and then the keystore, and a keystore was
\* handed out
C40_Witness ==
    /\ Len(delivered) >= 2
    /\ delivered[Len(delivered) - 1] = [to |-> "o1", event |-> FirmwareEventStatusChanged]
    /\ LastFired = [to |-> "o1", event |-> EventKeystoreAvailable]
    /\ returned = [op |-> "KeystoreForConfiguration", value |-> "keystore"]

====
